---- MODULE Spec2Model ----
(***************************************************************************)
(* Model of tools/mqtt_playmedia.py: a single-shot command line tool that  *)
(* parses its arguments, builds a payload, connects to an MQTT broker,     *)
(* starts the client's background network loop, publishes one message and  *)
(* polls the publish handle until it is acknowledged or a deadline passes. *)
(*                                                                         *)
(* Strings are sequences of characters.  Time is counted in ticks of 50 ms *)
(* (so the 0.1 s poll interval is 2 ticks); the monotonic clock advances   *)
(* on its own while the main flow runs and sleeps.  The MQTT client        *)
(* library is the environment: connect may raise, publish may raise, the   *)
(* handle's status query may raise, and the background loop sets the       *)
(* "published" flag at an arbitrary moment or never.  Asynchronous signals *)
(* (KeyboardInterrupt) are not modelled.                                   *)
(***************************************************************************)
EXTENDS Integers, Sequences, FiniteSets, TLC

\* ------------------------------------------------------------------ bounds
MaxLen == 2         \* longest video identifier drawn
MaxTimeout == 4     \* largest --timeout drawn, in ticks
MaxJitter == 1      \* longest overshoot of one time.sleep(0.1), in ticks

\* --------------------------------------------------------------- constants
PollInterval == 2   \* time.sleep(0.1): 0.1 s = 2 ticks of 50 ms
DefaultQos == 1     \* --qos default
RetConnectFailed == 1
RetTimedOut == 2
RetOk == 0
UsageExit == 2      \* argparse's parser.error exit status

\* ------------------------------------------------------------- json.dumps
\* Characters of a video identifier: a letter, the double quote, the
\* backslash, a control character (newline) and a non-ASCII character.
EACUTE == "U+00E9"
Chars == {"a", "\"", "\\", "\n", EACUTE}

RECURSIVE SeqsUpTo(_, _)
SeqsUpTo(S, n) ==
    IF n = 0 THEN {<<>>}
    ELSE LET shorter == SeqsUpTo(S, n - 1)
         IN  shorter \cup {Append(s, c) : s \in {t \in shorter : Len(t) = n - 1}, c \in S}

KEY == <<"m","e","d","i","a","_","c","o","n","t","e","n","t","_","i","d">>

\* json.encoder.py_encode_basestring_ascii, one character (ensure_ascii=True)
EscapeCharNoQuote(c) ==
    CASE c = "\\" -> <<"\\", "\\">>
      [] c = "\n" -> <<"\\", "n">>
      [] c = EACUTE -> <<"\\", "u", "0", "0", "e", "9">>
      [] OTHER -> <<c>>

EscapeChar(c) ==
    CASE c = "\"" -> <<"\\", "\"">>
      [] c = "\\" -> <<"\\", "\\">>
      [] c = "\n" -> <<"\\", "n">>
      [] c = EACUTE -> <<"\\", "u", "0", "0", "e", "9">>
      [] OTHER -> <<c>>

RECURSIVE EscapeBody(_)
EscapeBody(s) ==
    IF s = <<>> THEN <<>> ELSE EscapeChar(Head(s)) \o EscapeBody(Tail(s))

\* a JSON string literal
EncodeString(s) == <<"\"">> \o EscapeBody(s) \o <<"\"">>

\* json.dumps({k: v}) with the default separators (", ", ": ")
DumpsObject(k, v) ==
    <<"{">> \o EncodeString(k) \o <<":", " ">> \o EncodeString(v) \o <<"}">>

\* ------------------------------------------------------------- json.loads
\* The decoder of the round-trip law (the program itself never decodes): the
\* strict JSON decoder, restricted to one-member objects of strings.
Fail == [ok |-> FALSE]

HexChar(h) == IF h = <<"0", "0", "e", "9">> THEN EACUTE ELSE "?"

Unescape(c) ==
    CASE c = "\"" -> "\""
      [] c = "\\" -> "\\"
      [] c = "n" -> "\n"
      [] OTHER -> "?"

\* json.decoder.py_scanstring from position i (just after the opening quote)
RECURSIVE ScanString(_, _, _)
ScanString(s, i, acc) ==
    IF i > Len(s) THEN Fail
    ELSE IF s[i] = "\"" THEN [ok |-> TRUE, val |-> acc, next |-> i + 1]
    ELSE IF s[i] = "\n" THEN Fail
    ELSE IF s[i] = "\\" THEN
        IF i + 1 > Len(s) THEN Fail
        ELSE IF s[i + 1] = "u" THEN
            IF i + 5 > Len(s) \/ HexChar(SubSeq(s, i + 2, i + 5)) = "?" THEN Fail
            ELSE ScanString(s, i + 6, Append(acc, HexChar(SubSeq(s, i + 2, i + 5))))
        ELSE IF Unescape(s[i + 1]) = "?" THEN Fail
        ELSE ScanString(s, i + 2, Append(acc, Unescape(s[i + 1])))
    ELSE ScanString(s, i + 1, Append(acc, s[i]))

ParseString(s, i) ==
    IF i > Len(s) \/ s[i] # "\"" THEN Fail ELSE ScanString(s, i + 1, <<>>)

\* json.loads of a text holding one object with one string member: the
\* result is the object as a set of <<key, value>> pairs
LoadsObject(s) ==
    IF Len(s) < 1 \/ s[1] # "{" THEN Fail
    ELSE LET k == ParseString(s, 2) IN
         IF ~k.ok THEN Fail
         ELSE IF k.next + 1 > Len(s) \/ s[k.next] # ":" \/ s[k.next + 1] # " " THEN Fail
         ELSE LET v == ParseString(s, k.next + 2) IN
              IF ~v.ok THEN Fail
              ELSE IF v.next # Len(s) \/ s[v.next] # "}" THEN Fail
              ELSE [ok |-> TRUE, obj |-> {<<k.val, v.val>>}]

\* ---------------------------------------------------------- build_payload
build_payload(video_id, as_json) ==
    IF as_json THEN DumpsObject(KEY, video_id) ELSE video_id

\* ------------------------------------------------------------------ state
VARIABLES
    argv,        \* the command line: qos, transport, plain, username, video_id, timeout
    args,        \* the Namespace parse_args returned
    pc,          \* position of the main flow
    payload,     \* local `payload` of publish_playmedia
    calls,       \* the client-library calls made so far, in order
    sent,        \* what client.publish was given
    stdout,      \* lines printed to standard output
    stderr,      \* lines printed to standard error
    result,      \* the value the return statement being executed will return
    ret,         \* publish_playmedia's return value
    exitCode,    \* the process exit status
    exc,         \* the exception propagating out of publish_playmedia
    connectResult, \* what client.connect did: "ok" or the exception it raised
    connected,   \* the client holds an open connection
    loopRunning, \* the background network loop runs
    rc,          \* the publish handle's rc: "ok" or "err"
    published,   \* the handle's acknowledgement flag, set by the background loop
    ackTime,     \* clock value at which the flag was set
    ackPolls,    \* how many status reads had been made when the flag was set
    now,         \* time.monotonic(), in ticks
    pollStart,   \* clock value read when the deadline was computed
    deadline,    \* local `deadline`
    clockRead,   \* the last clock value the loop compared with the deadline
    prevRead,    \* the clock value compared before that
    nPolls,      \* calls of info.is_published()
    lastFlag,    \* what the last info.is_published() returned
    nSleeps,     \* completed time.sleep(0.1) calls
    sleepStart   \* clock value when the current sleep began (0 when not asleep)

vars == <<argv, args, pc, payload, calls, sent, stdout, stderr, result, ret,
          exitCode, exc, connectResult, connected, loopRunning, rc, published,
          ackTime, ackPolls, now, pollStart, deadline, clockRead, prevRead, nPolls,
          lastFlag, nSleeps, sleepStart>>

\* optional values: None, or Some(v) with the value at index 1
None == <<>>
Some(v) == <<v>>

\* what a step leaves alone, by group
argVars == <<argv, args, payload>>
clockVars == <<now, pollStart, deadline, clockRead, prevRead, nPolls, lastFlag, nSleeps,
               sleepStart>>
ackVars == <<published, ackTime, ackPolls>>
ioVars == <<stdout, stderr>>
endVars == <<result, ret, exitCode, exc>>
clientVars == <<calls, sent, connectResult, connected, loopRunning, rc>>

\* --------------------------------------------------------------- arguments
QosChoices == {0, 1, 2}
TransportChoices == {"tcp", "websockets"}

\* values given on the command line (None where the option is absent)
QosInputs == {None} \cup {Some(q) : q \in -1 .. 3}
TransportInputs == {None, Some("tcp"), Some("websockets"), Some("udp")}
UsernameInputs == {None, Some(""), Some("u")}
\* --timeout takes any float: negative values, zero, and positive ones (it is
\* always given here: its default of 5.0 s is a hundred ticks)
TimeoutInputs == {Some(t) : t \in (0 - PollInterval) .. MaxTimeout}

ArgvType ==
    [qos : QosInputs, transport : TransportInputs, plain : BOOLEAN,
     username : UsernameInputs, video_id : SeqsUpTo(Chars, MaxLen),
     timeout : TimeoutInputs]

\* argparse: the option's value, or its default when absent
OptionValue(given, default) == IF given = None THEN default ELSE given[1]

\* argparse: choices=(0, 1, 2) on --qos
QosAcceptedAny(q) == TRUE
QosAccepted(q) == q \in QosChoices

\* argparse: choices=("tcp", "websockets") on --transport
TransportAccepted(t) == t \in TransportChoices

\* --plain: dest=use_json, action=store_false, with set_defaults(use_json=True)
UseJsonInverted(plain) == plain
UseJson(plain) == ~plain

\* the Namespace parse_args builds from an accepted command line
\* (--username has no default: the attribute is Python's None when absent)
parse_args(a) ==
    [qos |-> OptionValue(a.qos, DefaultQos),
     transport |-> OptionValue(a.transport, "websockets"),
     use_json |-> UseJson(a.plain),
     username |-> a.username,
     video_id |-> a.video_id,
     timeout |-> a.timeout[1]]

Accepted(a) ==
    /\ QosAccepted(OptionValue(a.qos, DefaultQos))
    /\ TransportAccepted(OptionValue(a.transport, "websockets"))

\* `if username:` -- None and the empty string are falsy
Truthy(u) == u # None /\ u[1] # ""

\* ------------------------------------------------------------------- Init
InitRun ==
    /\ args = None
    /\ pc = "parse_args"
    /\ payload = None
    /\ calls = <<>>
    /\ sent = None
    /\ stdout = <<>>
    /\ stderr = <<>>
    /\ result = None
    /\ ret = None
    /\ exitCode = None
    /\ exc = None
    /\ connectResult = None
    /\ connected = FALSE
    /\ loopRunning = FALSE
    /\ rc = None
    /\ published = FALSE
    /\ ackTime = None
    /\ ackPolls = None
    /\ now = 0
    /\ pollStart = None
    /\ deadline = None
    /\ clockRead = None
    /\ prevRead = None
    /\ nPolls = 0
    /\ lastFlag = None
    /\ nSleeps = 0
    /\ sleepStart = 0

\* the command lines drawn for the runs: every --qos, --transport, --plain
\* and --timeout value, one video identifier, no --username
RunArgv ==
    {a \in ArgvType : a.username = None /\ a.video_id = <<"a">>}

Init ==
    /\ argv \in RunArgv
    /\ InitRun

\* the command lines drawn for the payload: every video identifier, with and
\* without --plain and --username, the other options absent, --timeout 0
PayloadArgv ==
    {a \in ArgvType : a.qos = None /\ a.transport = None /\ a.timeout = Some(0)}

InitPayload ==
    /\ argv \in PayloadArgv
    /\ InitRun

\* one command line per timeout, the other options absent
TimeoutArgv ==
    {a \in RunArgv : a.qos = None /\ a.transport = None /\ ~a.plain}

InitTimeout ==
    /\ argv \in TimeoutArgv
    /\ InitRun

\* ------------------------------------------------------- parse_args / main
\* main, line 135: argparse rejects a value outside an option's choices with
\* a usage message on standard error and SystemExit(2), before anything else
ParseArgs ==
    /\ pc = "parse_args"
    /\ IF Accepted(argv)
       THEN /\ args' = Some(parse_args(argv))
            /\ pc' = "setup"
            /\ UNCHANGED <<stderr, exitCode>>
       ELSE /\ stderr' = Append(stderr, "usage")
            /\ exitCode' = Some(UsageExit)
            /\ pc' = "exited"
            /\ args' = args
    /\ UNCHANGED <<argv, payload, stdout, result, ret, exc, clientVars, ackVars, clockVars>>

\* ------------------------------------------------------- publish_playmedia
\* lines 39-47: payload, Client(transport=...), ws_set_options, username_pw_set
SetupCalls(a) ==
    <<"Client">>
    \o (IF a.transport = "websockets" THEN <<"ws_set_options">> ELSE <<>>)
    \o (IF Truthy(a.username) THEN <<"username_pw_set">> ELSE <<>>)

Setup ==
    /\ pc = "setup"
    /\ payload' = Some(build_payload(args[1].video_id, args[1].use_json))
    /\ calls' = calls \o SetupCalls(args[1])
    /\ pc' = "connect"
    /\ UNCHANGED <<argv, args, sent, connectResult, connected, loopRunning, rc, ioVars,
                   endVars, ackVars, clockVars>>

\* what client.connect can do: succeed, fail to reach the broker (OSError),
\* or reject its arguments (ValueError)
ConnectOutcomes == {"ok", "OSError", "ValueError"}

\* `except Exception`: every exception class connect raises is caught
CaughtOnlyOSError(e) == e = "OSError"
Caught(e) == e \in {"OSError", "ValueError", "RuntimeError"}

\* line 54: the handler returns, and nothing after it runs
ConnectFailedFallsThrough == "loop_start"
ConnectFailedNext == "return"

\* lines 49-54
Connect ==
    /\ pc = "connect"
    /\ stdout' = Append(stdout, "Connecting")
    /\ calls' = Append(calls, "connect")
    /\ \E o \in ConnectOutcomes :
         /\ connectResult' = Some(o)
         /\ IF o = "ok"
           THEN /\ connected' = TRUE
                /\ pc' = "loop_start"
                /\ UNCHANGED <<stderr, result, exc>>
           ELSE IF Caught(o)
           THEN /\ stderr' = Append(stderr, "Connection failed")
                /\ result' = Some(RetConnectFailed)
                /\ pc' = ConnectFailedNext
                /\ UNCHANGED <<connected, exc>>
           ELSE /\ exc' = Some(o)
                /\ pc' = "raised"
                /\ UNCHANGED <<connected, stderr, result>>
    /\ UNCHANGED <<argVars, sent, loopRunning, rc, ret, exitCode, ackVars, clockVars>>

\* line 56
LoopStart ==
    /\ pc = "loop_start"
    /\ calls' = Append(calls, "loop_start")
    /\ loopRunning' = TRUE
    /\ pc' = "publish"
    /\ UNCHANGED <<argVars, sent, connectResult, connected, rc, ioVars, endVars, ackVars,
                   clockVars>>

\* what client.publish can do: queue the message (rc "ok"), return a handle
\* whose rc is an error, or raise ValueError (a topic or payload it rejects)
PublishOutcomes == {"ok", "err", "ValueError"}

\* lines 58-59
Publish ==
    /\ pc = "publish"
    /\ stdout' = Append(stdout, "Publishing")
    /\ calls' = Append(calls, "publish")
    /\ \E o \in PublishOutcomes :
         IF o = "ValueError"
         THEN /\ exc' = Some(o)
              /\ pc' = "raised"
              /\ UNCHANGED <<sent, rc>>
         ELSE /\ sent' = Some([payload |-> payload[1], qos |-> args[1].qos])
              /\ rc' = Some(o)
              /\ pc' = "deadline"
              /\ exc' = exc
    /\ UNCHANGED <<argVars, connectResult, connected, loopRunning, stderr, result, ret,
                   exitCode, ackVars, clockVars>>

\* line 61: deadline = time.monotonic() + timeout
DeadlineOf(t, timeout) == t + timeout

SetDeadline ==
    /\ pc = "deadline"
    /\ pollStart' = Some(now)
    /\ deadline' = Some(DeadlineOf(now, args[1].timeout))
    /\ pc' = "poll"
    /\ UNCHANGED <<argVars, clientVars, ioVars, endVars, ackVars, now, clockRead,
                   prevRead, nPolls, lastFlag, nSleeps, sleepStart>>

\* line 62: `while not ...` -- the loop body runs while the flag is unset
AfterPollInverted(flag) == IF flag THEN "check" ELSE "acknowledged"
AfterPoll(flag) == IF flag THEN "acknowledged" ELSE "check"

\* line 62: while not info.is_published() -- the query raises RuntimeError
\* when the handle's rc is an error
IsPublished ==
    /\ pc = "poll"
    /\ nPolls' = nPolls + 1
    /\ IF rc = Some("err")
       THEN /\ exc' = Some("RuntimeError")
            /\ pc' = "raised"
            /\ lastFlag' = lastFlag
       ELSE /\ lastFlag' = Some(published)
            /\ pc' = AfterPoll(published)
            /\ exc' = exc
    /\ UNCHANGED <<argVars, clientVars, ioVars, result, ret, exitCode, ackVars, now,
                   pollStart, deadline, clockRead, prevRead, nSleeps, sleepStart>>

\* line 63: time.monotonic() > deadline
PastDeadlineInclusive(t, d) == t >= d
PastDeadlineReversed(t, d) == t < d
PastDeadline(t, d) == t > d

\* lines 63-64 and the call of time.sleep on line 68
CheckDeadline ==
    /\ pc = "check"
    /\ clockRead' = Some(now)
    /\ prevRead' = clockRead
    /\ IF PastDeadline(now, deadline[1])
       THEN /\ stderr' = Append(stderr, "Publish timed out.")
            /\ result' = Some(RetTimedOut)
            /\ pc' = "loop_stop"
            /\ sleepStart' = sleepStart
       ELSE /\ pc' = "sleep"
            /\ sleepStart' = now
            /\ UNCHANGED <<stderr, result>>
    /\ UNCHANGED <<argVars, clientVars, stdout, ret, exitCode, exc, ackVars, now,
                   pollStart, deadline, nPolls, lastFlag, nSleeps>>

\* line 68: time.sleep(0.1) returns once at least the interval has passed
SleepOver(t, start) == t >= start + PollInterval

Wake ==
    /\ pc = "sleep"
    /\ SleepOver(now, sleepStart)
    /\ nSleeps' = nSleeps + 1
    /\ sleepStart' = 0
    /\ pc' = "poll"
    /\ UNCHANGED <<argVars, clientVars, ioVars, endVars, ackVars, now, pollStart,
                   deadline, clockRead, prevRead, nPolls, lastFlag>>

\* line 70
Acknowledged ==
    /\ pc = "acknowledged"
    /\ stdout' = Append(stdout, "Publish acknowledged.")
    /\ result' = Some(RetOk)
    /\ pc' = "loop_stop"
    /\ UNCHANGED <<argVars, clientVars, stderr, ret, exitCode, exc, ackVars, clockVars>>

\* lines 65-66 and 71-72: the two library calls that end both paths
CleanupSwapped == <<"disconnect", "loop_stop">>
CleanupTwice == <<"loop_stop", "disconnect", "disconnect">>
CleanupCalls == <<"loop_stop", "disconnect">>

\* the effect of one cleanup call on the client
AfterCall(c, running, conn) ==
    IF c = "loop_stop" THEN <<FALSE, conn>> ELSE <<running, FALSE>>

\* lines 65 and 71, then 66 and 72: pc "loop_stop" makes the first cleanup
\* call, pc "disconnect" the remaining ones
LoopStop ==
    /\ pc = "loop_stop"
    /\ calls' = Append(calls, CleanupCalls[1])
    /\ loopRunning' = AfterCall(CleanupCalls[1], loopRunning, connected)[1]
    /\ connected' = AfterCall(CleanupCalls[1], loopRunning, connected)[2]
    /\ pc' = "disconnect"
    /\ UNCHANGED <<argVars, sent, connectResult, rc, ioVars, endVars, ackVars, clockVars>>

RECURSIVE RunCalls(_, _, _)
RunCalls(cs, running, conn) ==
    IF cs = <<>> THEN <<running, conn>>
    ELSE LET after == AfterCall(Head(cs), running, conn)
         IN  RunCalls(Tail(cs), after[1], after[2])

Disconnect ==
    /\ pc = "disconnect"
    /\ calls' = calls \o Tail(CleanupCalls)
    /\ loopRunning' = RunCalls(Tail(CleanupCalls), loopRunning, connected)[1]
    /\ connected' = RunCalls(Tail(CleanupCalls), loopRunning, connected)[2]
    /\ pc' = "return"
    /\ UNCHANGED <<argVars, sent, connectResult, rc, ioVars, endVars, ackVars, clockVars>>

\* lines 54, 67 and 73: return 1 / 2 / 0
Return ==
    /\ pc = "return"
    /\ ret' = result
    /\ pc' = "returned"
    /\ UNCHANGED <<argVars, clientVars, ioVars, result, exitCode, exc, ackVars, clockVars>>

\* lines 136 and 153: main returns publish_playmedia's value and the script
\* raises SystemExit with it
ExitStatusDropped(r) == Some(RetOk)
ExitStatusOf(r) == r

MainExit ==
    /\ pc = "returned"
    /\ exitCode' = ExitStatusOf(ret)
    /\ pc' = "exited"
    /\ UNCHANGED <<argVars, clientVars, ioVars, result, ret, exc, ackVars, clockVars>>

\* ------------------------------------------------------------ environment
\* the background network loop receives the acknowledgement and sets the
\* handle's flag; it runs from loop_start to loop_stop
LoopAck ==
    /\ loopRunning
    /\ rc = Some("ok")
    /\ ~published
    /\ published' = TRUE
    /\ ackTime' = Some(now)
    /\ ackPolls' = Some(nPolls)
    /\ UNCHANGED <<argVars, pc, clientVars, ioVars, endVars, clockVars>>

\* the monotonic clock advances: during a sleep (which may overshoot by up
\* to MaxJitter), and between the statements of the polling loop while the
\* deadline has not passed
\* The clock is cut off at ClockCap, a value no run reaches (ClockCapUnreached).
ClockCap == MaxTimeout + 1 + PollInterval + MaxJitter + 1

Tick ==
    /\ \/ pc = "sleep" /\ now < sleepStart + PollInterval + MaxJitter
       \/ pc \in {"poll", "check"} /\ now <= deadline[1]
    /\ now < ClockCap
    /\ now' = now + 1
    /\ UNCHANGED <<argVars, pc, clientVars, ioVars, endVars, ackVars, pollStart,
                   deadline, clockRead, prevRead, nPolls, lastFlag, nSleeps, sleepStart>>

Next ==
    \/ ParseArgs
    \/ Setup
    \/ Connect
    \/ LoopStart
    \/ Publish
    \/ SetDeadline
    \/ IsPublished
    \/ CheckDeadline
    \/ Wake
    \/ Acknowledged
    \/ LoopStop
    \/ Disconnect
    \/ Return
    \/ MainExit
    \/ LoopAck
    \/ Tick

Spec == Init /\ [][Next]_vars

SpecPayload == InitPayload /\ [][Next]_vars

\* The main flow is a running thread: each of its steps is eventually taken;
\* and time passes.  Nothing obliges the broker to acknowledge.
MainStep ==
    \/ ParseArgs \/ Setup \/ Connect \/ LoopStart \/ Publish \/ SetDeadline
    \/ IsPublished \/ CheckDeadline \/ Wake \/ Acknowledged \/ LoopStop
    \/ Disconnect \/ Return \/ MainExit

FairSpec == InitTimeout /\ [][Next]_vars /\ WF_vars(MainStep) /\ WF_vars(Tick)

ClockCapUnreached == now < ClockCap

\* ================================================================== claims
\* vocabulary of the claims
Count(seq, x) == Cardinality({i \in DOMAIN seq : seq[i] = x})
Before(seq, x, y) ==
    \A i, j \in DOMAIN seq : seq[i] = x /\ seq[j] = y => i < j
Ended == pc \in {"exited", "raised"}
ConnectRaised == connectResult \notin {None, Some("ok")}
SawPublished == lastFlag = Some(TRUE)
SawTimeout ==
    /\ lastFlag = Some(FALSE)
    /\ clockRead # None
    /\ clockRead[1] > deadline[1]
\* the client calls of the protocol, without the client's configuration
ProtocolOrder == <<"connect", "loop_start", "publish", "loop_stop", "disconnect">>
ProtocolCalls == SelectSeq(calls, LAMBDA c : c \in {ProtocolOrder[i] : i \in DOMAIN ProtocolOrder})
IsPrefix(a, b) == Len(a) <= Len(b) /\ a = SubSeq(b, 1, Len(a))

\* C1: publish_playmedia returns only 0, 1 or 2; among the runs that return,
\* it returns 1 exactly when connect raised, 0 exactly when a status poll
\* saw the flag set, and 2 exactly when a status poll saw it unset and the
\* clock read after it was past the deadline; a run in which one
\* of these causes occurred ends returning that value; and the process exit
\* status is the value returned.
C1_ReturnCauses ==
    /\ ret \in {None, Some(0), Some(1), Some(2)}
    /\ ret # None =>
         /\ (ret = Some(1)) <=> ConnectRaised
         /\ (ret = Some(0)) <=> SawPublished
         /\ (ret = Some(2)) <=> SawTimeout
    /\ Ended /\ ConnectRaised => ret = Some(1)
    /\ Ended /\ SawPublished => ret = Some(0)
    /\ Ended /\ SawTimeout => ret = Some(2)
    /\ pc = "exited" /\ ret # None => exitCode = ret

C1_Witness ==
    /\ pc = "exited"
    /\ exitCode = Some(2)
    /\ SawTimeout
    /\ nSleeps >= 1

\* C2 as stated: a run that polled returns 0 if the flag was set no later
\* than the deadline, and 2 if it was not (set later, or never).
AckByDeadline == published /\ ackTime[1] <= deadline[1]

C2_Original ==
    pc = "exited" /\ ret \in {Some(0), Some(2)} =>
        /\ AckByDeadline => ret = Some(0)
        /\ ~AckByDeadline => ret = Some(2)

\* C2 amended: what decides is the order of the flag being set and the
\* status polls, not the deadline.  The run returns 0 exactly when a status
\* poll took place after the flag was set, whether or not the deadline had
\* passed by then, and no clock read before it was past the deadline; it
\* returns 2 only after a clock read past the deadline, and then a flag that is
\* set was set after the last status poll.
C2_PollOrderDecides ==
    ret \in {Some(0), Some(2)} =>
        /\ (ret = Some(0)) <=> (published /\ ackPolls[1] < nPolls)
        /\ ret = Some(0) => clockRead = None \/ clockRead[1] <= deadline[1]
        /\ ret = Some(2) =>
             /\ clockRead[1] > deadline[1]
             /\ published => ackPolls[1] = nPolls

\* a positive timeout, and an acknowledgement that arrived after the
\* deadline, during the last sleep, and produced 0
C2_Witness ==
    /\ pc = "exited"
    /\ ret = Some(0)
    /\ args[1].timeout > 0
    /\ ackTime[1] > deadline[1]
    /\ ackPolls[1] = nSleeps
    /\ nSleeps >= 1
    /\ nPolls = nSleeps + 1

\* C3: when connect fails the run prints the diagnostic to standard error
\* and ends with exit status 1, having called connect once and none of
\* loop_start, publish, loop_stop, disconnect.
C3_ConnectFailure ==
    ConnectRaised =>
        /\ pc \in {"return", "returned", "exited"}
        /\ stderr = <<"Connection failed">>
        /\ Count(calls, "connect") = 1
        /\ \A c \in {"loop_start", "publish", "loop_stop", "disconnect"} :
               Count(calls, c) = 0
        /\ ~loopRunning
        /\ sent = None
        /\ ret \in {None, Some(1)}
        /\ pc = "exited" => exitCode = Some(1)

C3_Witness ==
    /\ pc = "exited"
    /\ connectResult = Some("OSError")
    /\ exitCode = Some(1)

\* C4 as stated: whenever the function has returned 0 or 2 the loop was
\* stopped and the connection closed, once each and in that order; and no
\* run ends with the loop running or the connection open.
CleanedUp ==
    /\ Count(calls, "loop_stop") = 1
    /\ Count(calls, "disconnect") = 1
    /\ Before(calls, "loop_stop", "disconnect")
    /\ ~loopRunning
    /\ ~connected

C4_Original ==
    /\ ret \in {Some(0), Some(2)} => CleanedUp
    /\ Ended => ~loopRunning /\ ~connected

\* C4 amended: cleanup is guaranteed on the two paths that return.  Whenever
\* the function has returned 0 or 2 the loop was stopped and the connection
\* closed, once each and in that order, and no run that ends by returning
\* leaves the loop running or the connection open; a run that ends with an
\* exception out of publish or the status poll makes neither cleanup call and
\* leaves the loop running and the connection open.
C4_CleanupOnReturn ==
    /\ ret \in {Some(0), Some(2)} => CleanedUp
    /\ pc = "exited" => ~loopRunning /\ ~connected
    /\ pc = "raised" =>
         /\ loopRunning /\ connected
         /\ Count(calls, "loop_stop") = 0
         /\ Count(calls, "disconnect") = 0

C4_Witness ==
    /\ pc = "exited"
    /\ ret = Some(2)
    /\ CleanedUp
    /\ Count(calls, "loop_start") = 1

\* C5 as stated: with no acknowledgement, the run returns 2 no earlier than
\* `timeout` after polling began and strictly less than timeout plus one
\* poll interval after it, with one status poll per sleep.
Delay == clockRead[1] - pollStart[1]

C5_Original ==
    ret = Some(2) /\ ~published =>
        /\ Delay >= args[1].timeout
        /\ Delay < args[1].timeout + PollInterval
        /\ nPolls = nSleeps + 1

\* C5 amended: with no acknowledgement, the run returns 2 at the first clock
\* read that is strictly past the deadline: strictly more than `timeout`
\* after polling began, after one status poll per completed sleep plus the
\* first, each sleep lasting at least the poll interval, and every earlier
\* clock read was at or before the deadline (so the delay exceeds the timeout
\* by no more than the time between the last two clock reads).  With a
\* negative timeout that is the first read, with no sleep at all.
C5_TimeoutDelay ==
    ret = Some(2) /\ ~published =>
        /\ Delay > args[1].timeout
        /\ nPolls = nSleeps + 1
        /\ Delay >= nSleeps * PollInterval
        /\ nSleeps >= 1 => prevRead # None /\ prevRead[1] <= deadline[1]
        /\ args[1].timeout < 0 => nSleeps = 0

\* --timeout 0.2 (4 ticks), never acknowledged
C5_Witness ==
    /\ pc = "exited"
    /\ ret = Some(2)
    /\ ~published
    /\ argv.timeout = Some(4)
    /\ nSleeps >= 2
    /\ Delay \in 5 .. 7

\* C6: a command line whose --qos is outside {0,1,2} or whose --transport is
\* outside {tcp, websockets} ends with the usage error before any client is
\* built, connect attempted or publish issued; and publish is only ever
\* given a qos in {0,1,2}.
BadQos == argv.qos # None /\ argv.qos[1] \notin {0, 1, 2}
BadTransport == argv.transport \notin {None, Some("tcp"), Some("websockets")}

C6_ValidationFirst ==
    /\ BadQos \/ BadTransport =>
         /\ pc \in {"parse_args", "exited"}
         /\ calls = <<>>
         /\ sent = None
         /\ ret = None
         /\ pc = "exited" => exitCode = Some(2) /\ stderr = <<"usage">>
    /\ sent # None => sent[1].qos \in {0, 1, 2}

C6_Witness ==
    /\ pc = "exited"
    /\ argv.qos = Some(3)
    /\ argv.transport = Some("tcp")
    /\ calls = <<>>
    /\ exitCode = Some(2)

\* C7: in JSON mode the payload decodes to the object with the one key
\* media_content_id mapped to the video identifier; with --plain it is the
\* identifier itself; JSON mode is the default (use_json is false only under
\* --plain); and publish is given exactly that payload.
PayloadLaw(p) ==
    IF argv.plain
    THEN p = argv.video_id
    ELSE LoadsObject(p) = [ok |-> TRUE, obj |-> {<<KEY, argv.video_id>>}]

C7_PayloadRoundTrip ==
    /\ args # None => args[1].use_json = ~argv.plain
    /\ payload # None => PayloadLaw(payload[1])
    /\ sent # None => PayloadLaw(sent[1].payload)

C7_Witness ==
    /\ sent # None
    /\ ~argv.plain
    /\ argv.video_id = <<"\"", "\\">>
    /\ LoadsObject(sent[1].payload).ok

\* C8 as stated: only a connection failure (the broker cannot be reached) and
\* the timeout are handled; any other exception, raised by connect or by
\* publish or the status poll, propagates and is never turned into a return
\* value.
C8_Original ==
    /\ connectResult \notin {None, Some("ok"), Some("OSError")} =>
           result = None /\ ret = None
    /\ exc # None => ret = None /\ exitCode = None

\* C8 amended: every exception connect raises, whatever its class, is caught
\* and turned into return value 1 (connect has no "other" exceptions); an
\* exception raised by publish or by the status poll is not caught: it
\* propagates and no value is returned.
C8_OnlyConnectCaught ==
    /\ ConnectRaised => exc = None /\ result = Some(1)
    /\ exc # None =>
         /\ pc = "raised"
         /\ connectResult = Some("ok")
         /\ result = None /\ ret = None /\ exitCode = None
    /\ pc = "raised" => exc # None
    /\ Ended /\ rc = Some("err") => pc = "raised"

C8_Witness ==
    /\ pc = "exited"
    /\ connectResult = Some("ValueError")
    /\ exitCode = Some(1)

\* C9: the client calls of a run are a prefix of connect, loop_start,
\* publish, loop_stop, disconnect, in that order and once each; loop_start
\* only after connect succeeded; a run is never both acknowledged and timed
\* out.
C9_ProtocolOrder ==
    /\ IsPrefix(ProtocolCalls, ProtocolOrder)
    /\ Count(calls, "loop_start") > 0 => connectResult = Some("ok")
    /\ ~(Count(stdout, "Publish acknowledged.") > 0 /\ Count(stderr, "Publish timed out.") > 0)
    /\ Count(stdout, "Publish acknowledged.") <= 1
    /\ Count(stderr, "Publish timed out.") <= 1
    /\ ~(SawPublished /\ SawTimeout)

C9_Witness ==
    /\ pc = "exited"
    /\ ProtocolCalls = ProtocolOrder
    /\ Count(stdout, "Publish acknowledged.") = 1

====
